---- MODULE Spec2Model ----
(***************************************************************************)
(* Lunar Lander prototypes: the event handlers of MoonLaner.py (key state, *)
(* fuel-gated force per tick) and of lundarLanderBeta.py (thrust latched   *)
(* by key presses, fuel drained by Lander.get_thrust).                     *)
(*                                                                         *)
(* Each handler of GameWindow is one atomic action (the framework calls    *)
(* them from one thread).  The physics engine and the renderer are         *)
(* external: the model records the calls a handler makes to them, in       *)
(* order, in engine_calls / draw_calls (the calls of the handler that ran  *)
(* last; a handler that makes none leaves the log empty).                  *)
(* Rotation is a Python float that only ever takes multiples of 5, which   *)
(* floats hold exactly; it is an integer here.                             *)
(***************************************************************************)
EXTENDS Integers, Sequences, FiniteSets, TLC

\* ---------------------------------------------------------------- bounds
\* Most on_update ticks of a scripted scenario (SpecHoldRight, SpecAlternate).
MaxTicks == 1003
\* lundarLanderBeta.py: horizontal key presses stop once rotation reaches this.
MaxRotationSeen == 60

\* ------------------------------------------------------------- constants
PLAYER_MOVE_FORCE == 65
Beta_PLAYER_MOVE_FORCE == 65

\* arcade.key codes, kept symbolic; DOWN and SPACE stand for every other key.
RIGHT == "RIGHT"
LEFT == "LEFT"
UP == "UP"
DOWN == "DOWN"
SPACE == "SPACE"
Keys == {RIGHT, LEFT, UP, DOWN, SPACE}
DirectionKeys == {RIGHT, LEFT, UP}

VARIABLES
    input_service,  \* MoonLaner InputService: [right, left, up]
    lander,         \* MoonLaner Lander: [thrust, rotation, fuel, has_crashed]
    engine_calls,   \* physics_engine calls made by the handler that ran last
    draw_calls,     \* renderer calls made by the handler that ran last
    handler,        \* observer: the handler that ran last, <<name, key>>
    last_event,     \* observer: per direction key, its latest key event
    ticks,          \* observer: on_update calls so far (scripted scenarios only)
    call_arg,       \* observer: argument of the Lander method called last (SpecLander only)
    beta_lander,        \* lundarLanderBeta Lander: [thrust, rotation, fuel, has_crashed]
    beta_engine_calls,  \* as engine_calls, for lundarLanderBeta's window
    beta_draw_calls,    \* as draw_calls, for lundarLanderBeta's window
    beta_handler        \* observer: lundarLanderBeta's handler that ran last

mvars == <<input_service, lander, engine_calls, draw_calls, handler, last_event, ticks, call_arg>>
bvars == <<beta_lander, beta_engine_calls, beta_draw_calls, beta_handler>>
vars == <<mvars, bvars>>

\* --------------------------------------------------- external call records
NoKey == "-"
ApplyForce(force) == [op |-> "apply_force", force |-> force]
Step == [op |-> "step", force |-> <<0, 0>>]
DrawCall(op, arg) == [op |-> op, arg |-> arg]

\* physics_engine.apply_force(player_sprite, force), physics_engine.step()
apply_force(calls, force) == Append(calls, ApplyForce(force))
step(calls) == Append(calls, Step)

\* ------------------------------------------------------ MoonLaner: Lander
Lander_init == [thrust |-> <<0, 0>>, rotation |-> 0, fuel |-> 1000, has_crashed |-> FALSE]

get_fuel(self) == self.fuel

get_rotation(self) == self.rotation

get_thrust(self) == IF self.fuel = 0 THEN <<0, 0>> ELSE self.thrust

set_rotation(self, rotation) ==
    LET r == self.rotation + rotation
    IN  [self EXCEPT !.rotation = IF r > 45 THEN 45 ELSE r]

\* Mutant: a leftward thrust tilts the other way, rotation - 5.
set_thrust_left_tilts_back(self, thrust) ==
    LET r == IF thrust[1] > 0 THEN self.rotation + 5
             ELSE IF thrust[1] < 0 THEN self.rotation - 5
             ELSE self.rotation
    IN  [self EXCEPT !.rotation = r, !.thrust = thrust]

set_thrust(self, thrust) ==
    LET r == IF thrust[1] > 0 THEN self.rotation + 5
             ELSE IF thrust[1] < 0 THEN self.rotation + 5
             ELSE self.rotation
    IN  [self EXCEPT !.rotation = r, !.thrust = thrust]

\* ------------------------------------------------ MoonLaner: InputService
InputService_init == [right |-> FALSE, left |-> FALSE, up |-> FALSE]

\* Mutant: the chain ends in a bare else, so any other key sets up.
key_input_else_up(self, key) ==
    IF key = RIGHT THEN [self EXCEPT !.right = TRUE]
    ELSE IF key = LEFT THEN [self EXCEPT !.left = TRUE]
    ELSE [self EXCEPT !.up = TRUE]

key_input(self, key) ==
    IF key = RIGHT THEN [self EXCEPT !.right = TRUE]
    ELSE IF key = LEFT THEN [self EXCEPT !.left = TRUE]
    ELSE IF key = UP THEN [self EXCEPT !.up = TRUE]
    ELSE self

\* Mutant: the LEFT branch was copied from RIGHT and clears right.
key_release_left_clears_right(self, key) ==
    IF key = RIGHT THEN [self EXCEPT !.right = FALSE]
    ELSE IF key = LEFT THEN [self EXCEPT !.right = FALSE]
    ELSE IF key = UP THEN [self EXCEPT !.up = FALSE]
    ELSE self

key_release(self, key) ==
    IF key = RIGHT THEN [self EXCEPT !.right = FALSE]
    ELSE IF key = LEFT THEN [self EXCEPT !.left = FALSE]
    ELSE IF key = UP THEN [self EXCEPT !.up = FALSE]
    ELSE self

\* ----------------------------------------------- MoonLaner: OutputService
\* player_sprite.turn_left / turn_right (the sprite's angle is the library's).
draw_lander(calls, l) ==
    LET turned == IF get_thrust(l)[1] < 0
                      THEN Append(calls, DrawCall("turn_left", <<get_rotation(l), 0>>))
                  ELSE IF get_thrust(l)[1] > 0
                      THEN Append(calls, DrawCall("turn_right", <<get_rotation(l), 0>>))
                  ELSE calls
    IN  Append(turned, DrawCall("player_list.draw", <<0, 0>>))

\* f"Fuel: {lander._fuel/10}%": true division of an integer by 10 prints the
\* quotient and one decimal digit, <<whole, tenth>>.
\* Mutant: the division by 10 is left out, as in lundarLanderBeta.py.
draw_fuel_undivided(calls, l) ==
    Append(calls, DrawCall("draw_text.fuel", <<l.fuel, 0>>))

draw_fuel(calls, l) ==
    Append(calls, DrawCall("draw_text.fuel", <<l.fuel \div 10, l.fuel % 10>>))

\* The altitude comes from the sprite's position, which the physics engine owns.
draw_altitude(calls, l) == Append(calls, DrawCall("draw_text.altitude", <<0, 0>>))

\* ------------------------------------------------- MoonLaner: GameWindow
on_key_press(key) ==
    /\ input_service' = key_input(input_service, key)
    /\ engine_calls' = <<>>
    /\ draw_calls' = <<>>
    /\ UNCHANGED lander

on_key_release(key) ==
    /\ input_service' = key_release(input_service, key)
    /\ engine_calls' = <<>>
    /\ draw_calls' = <<>>
    /\ UNCHANGED lander

\* Mutant: the up branch does not test the fuel.
on_update_up_unguarded ==
    /\ IF input_service.right /\ lander.fuel > 0 THEN
           /\ engine_calls' = step(apply_force(<<>>, <<PLAYER_MOVE_FORCE, 0>>))
           /\ lander' = [lander EXCEPT !.fuel = @ - 1]
       ELSE IF input_service.left /\ lander.fuel > 0 THEN
           /\ engine_calls' = step(apply_force(<<>>, <<-PLAYER_MOVE_FORCE, 0>>))
           /\ lander' = [lander EXCEPT !.fuel = @ - 1]
       ELSE IF input_service.up THEN
           /\ engine_calls' = step(apply_force(<<>>, <<0, PLAYER_MOVE_FORCE>>))
           /\ lander' = [lander EXCEPT !.fuel = @ - 1]
       ELSE
           /\ engine_calls' = step(<<>>)
           /\ lander' = lander
    /\ draw_calls' = <<>>
    /\ UNCHANGED input_service

\* Mutant: the right branch tests fuel >= 0.
on_update_right_at_zero ==
    /\ IF input_service.right /\ lander.fuel >= 0 THEN
           /\ engine_calls' = step(apply_force(<<>>, <<PLAYER_MOVE_FORCE, 0>>))
           /\ lander' = [lander EXCEPT !.fuel = @ - 1]
       ELSE IF input_service.left /\ lander.fuel > 0 THEN
           /\ engine_calls' = step(apply_force(<<>>, <<-PLAYER_MOVE_FORCE, 0>>))
           /\ lander' = [lander EXCEPT !.fuel = @ - 1]
       ELSE IF input_service.up /\ lander.fuel > 0 THEN
           /\ engine_calls' = step(apply_force(<<>>, <<0, PLAYER_MOVE_FORCE>>))
           /\ lander' = [lander EXCEPT !.fuel = @ - 1]
       ELSE
           /\ engine_calls' = step(<<>>)
           /\ lander' = lander
    /\ draw_calls' = <<>>
    /\ UNCHANGED input_service

\* Mutant: the left branch applies its force without spending fuel.
on_update_left_free ==
    /\ IF input_service.right /\ lander.fuel > 0 THEN
           /\ engine_calls' = step(apply_force(<<>>, <<PLAYER_MOVE_FORCE, 0>>))
           /\ lander' = [lander EXCEPT !.fuel = @ - 1]
       ELSE IF input_service.left /\ lander.fuel > 0 THEN
           /\ engine_calls' = step(apply_force(<<>>, <<-PLAYER_MOVE_FORCE, 0>>))
           /\ lander' = lander
       ELSE IF input_service.up /\ lander.fuel > 0 THEN
           /\ engine_calls' = step(apply_force(<<>>, <<0, PLAYER_MOVE_FORCE>>))
           /\ lander' = [lander EXCEPT !.fuel = @ - 1]
       ELSE
           /\ engine_calls' = step(<<>>)
           /\ lander' = lander
    /\ draw_calls' = <<>>
    /\ UNCHANGED input_service

\* Mutant: left is tested before right.
on_update_left_first ==
    /\ IF input_service.left /\ lander.fuel > 0 THEN
           /\ engine_calls' = step(apply_force(<<>>, <<-PLAYER_MOVE_FORCE, 0>>))
           /\ lander' = [lander EXCEPT !.fuel = @ - 1]
       ELSE IF input_service.right /\ lander.fuel > 0 THEN
           /\ engine_calls' = step(apply_force(<<>>, <<PLAYER_MOVE_FORCE, 0>>))
           /\ lander' = [lander EXCEPT !.fuel = @ - 1]
       ELSE IF input_service.up /\ lander.fuel > 0 THEN
           /\ engine_calls' = step(apply_force(<<>>, <<0, PLAYER_MOVE_FORCE>>))
           /\ lander' = [lander EXCEPT !.fuel = @ - 1]
       ELSE
           /\ engine_calls' = step(<<>>)
           /\ lander' = lander
    /\ draw_calls' = <<>>
    /\ UNCHANGED input_service

\* Mutant: the right branch tests fuel > 1.
on_update_right_off_by_one ==
    /\ IF input_service.right /\ lander.fuel > 1 THEN
           /\ engine_calls' = step(apply_force(<<>>, <<PLAYER_MOVE_FORCE, 0>>))
           /\ lander' = [lander EXCEPT !.fuel = @ - 1]
       ELSE IF input_service.left /\ lander.fuel > 0 THEN
           /\ engine_calls' = step(apply_force(<<>>, <<-PLAYER_MOVE_FORCE, 0>>))
           /\ lander' = [lander EXCEPT !.fuel = @ - 1]
       ELSE IF input_service.up /\ lander.fuel > 0 THEN
           /\ engine_calls' = step(apply_force(<<>>, <<0, PLAYER_MOVE_FORCE>>))
           /\ lander' = [lander EXCEPT !.fuel = @ - 1]
       ELSE
           /\ engine_calls' = step(<<>>)
           /\ lander' = lander
    /\ draw_calls' = <<>>
    /\ UNCHANGED input_service

\* Mutant: with nothing to apply the handler returns before physics_engine.step().
on_update_idle_no_step ==
    /\ IF input_service.right /\ lander.fuel > 0 THEN
           /\ engine_calls' = step(apply_force(<<>>, <<PLAYER_MOVE_FORCE, 0>>))
           /\ lander' = [lander EXCEPT !.fuel = @ - 1]
       ELSE IF input_service.left /\ lander.fuel > 0 THEN
           /\ engine_calls' = step(apply_force(<<>>, <<-PLAYER_MOVE_FORCE, 0>>))
           /\ lander' = [lander EXCEPT !.fuel = @ - 1]
       ELSE IF input_service.up /\ lander.fuel > 0 THEN
           /\ engine_calls' = step(apply_force(<<>>, <<0, PLAYER_MOVE_FORCE>>))
           /\ lander' = [lander EXCEPT !.fuel = @ - 1]
       ELSE
           /\ engine_calls' = <<>>
           /\ lander' = lander
    /\ draw_calls' = <<>>
    /\ UNCHANGED input_service

on_update ==
    /\ IF input_service.right /\ lander.fuel > 0 THEN
           /\ engine_calls' = step(apply_force(<<>>, <<PLAYER_MOVE_FORCE, 0>>))
           /\ lander' = [lander EXCEPT !.fuel = @ - 1]
       ELSE IF input_service.left /\ lander.fuel > 0 THEN
           /\ engine_calls' = step(apply_force(<<>>, <<-PLAYER_MOVE_FORCE, 0>>))
           /\ lander' = [lander EXCEPT !.fuel = @ - 1]
       ELSE IF input_service.up /\ lander.fuel > 0 THEN
           /\ engine_calls' = step(apply_force(<<>>, <<0, PLAYER_MOVE_FORCE>>))
           /\ lander' = [lander EXCEPT !.fuel = @ - 1]
       ELSE
           /\ engine_calls' = step(<<>>)
           /\ lander' = lander
    /\ draw_calls' = <<>>
    /\ UNCHANGED input_service

on_draw ==
    /\ draw_calls' = draw_altitude(draw_fuel(draw_lander(
                        <<DrawCall("start_render", <<0, 0>>),
                          DrawCall("wall_list.draw", <<0, 0>>),
                          DrawCall("platform_list.draw", <<0, 0>>)>>,
                        lander), lander), lander)
    /\ engine_calls' = <<>>
    /\ UNCHANGED <<input_service, lander>>

\* --------------------------------------------- lundarLanderBeta: Lander
Beta_Lander_init == [thrust |-> <<0, 0>>, rotation |-> 0, fuel |-> 2000, has_crashed |-> FALSE]

Beta_get_rotation(self) == self.rotation

\* Mutant: an empty tank marks the lander as crashed.
Beta_get_thrust_empty_crashes(self) ==
    IF self.fuel = 0
        THEN [ret |-> <<0, 0>>, self |-> [self EXCEPT !.has_crashed = TRUE]]
        ELSE [ret |-> self.thrust, self |-> [self EXCEPT !.fuel = @ - 10]]

\* Mutant: each read takes 30 units, which 2000 is no multiple of.
Beta_get_thrust_takes_30(self) ==
    IF self.fuel = 0
        THEN [ret |-> <<0, 0>>, self |-> self]
        ELSE [ret |-> self.thrust, self |-> [self EXCEPT !.fuel = @ - 30]]

\* The getter writes: ret is what it returns, self the lander it leaves.
Beta_get_thrust(self) ==
    IF self.fuel = 0
        THEN [ret |-> <<0, 0>>, self |-> self]
        ELSE [ret |-> self.thrust, self |-> [self EXCEPT !.fuel = @ - 10]]

Beta_set_rotation(self, rotation) ==
    LET r == self.rotation + rotation
    IN  [self EXCEPT !.rotation = IF r > 45 THEN 45 ELSE r]

Beta_set_thrust(self, thrust) ==
    LET r == IF thrust[1] > 0 THEN self.rotation + 5
             ELSE IF thrust[1] < 0 THEN self.rotation + 5
             ELSE self.rotation
    IN  [self EXCEPT !.rotation = r, !.thrust = thrust]

\* --------------------------------------- lundarLanderBeta: InputService
Beta_apply_input(key, l) ==
    LET force == IF key = LEFT THEN <<-Beta_PLAYER_MOVE_FORCE, 0>>
                 ELSE IF key = RIGHT THEN <<Beta_PLAYER_MOVE_FORCE, 0>>
                 ELSE IF key = UP THEN <<0, Beta_PLAYER_MOVE_FORCE>>
                 ELSE <<0, 0>>
    IN  Beta_set_thrust(l, force)

\* -------------------------------------- lundarLanderBeta: OutputService
\* The elif calls get_thrust a second time, on the lander the first call left.
Beta_draw_lander(calls, l) ==
    LET first == Beta_get_thrust(l)
        second == Beta_get_thrust(first.self)
    IN  IF first.ret[1] < 0 THEN
            [calls |-> Append(Append(calls,
                          DrawCall("turn_left", <<Beta_get_rotation(first.self), 0>>)),
                          DrawCall("player_list.draw", <<0, 0>>)),
             self |-> first.self]
        ELSE IF second.ret[1] > 0 THEN
            [calls |-> Append(Append(calls,
                          DrawCall("turn_right", <<Beta_get_rotation(second.self), 0>>)),
                          DrawCall("player_list.draw", <<0, 0>>)),
             self |-> second.self]
        ELSE
            [calls |-> Append(calls, DrawCall("player_list.draw", <<0, 0>>)),
             self |-> second.self]

\* f"Fuel: {lander._fuel}": the integer itself.
Beta_draw_fuel(calls, l) == Append(calls, DrawCall("draw_text.fuel", <<l.fuel, 0>>))

\* ---------------------------------------- lundarLanderBeta: GameWindow
Beta_on_key_press(key) ==
    /\ beta_lander' = Beta_apply_input(key, beta_lander)
    /\ beta_engine_calls' = <<>>
    /\ beta_draw_calls' = <<>>

\* Mutant: the tick reads _thrust itself, past get_thrust's empty-tank test.
Beta_on_update_reads_field ==
    LET thrust == Beta_get_thrust(beta_lander)
    IN  /\ beta_lander' = thrust.self
        /\ beta_engine_calls' = step(apply_force(<<>>, beta_lander.thrust))
        /\ beta_draw_calls' = <<>>

Beta_on_update ==
    LET thrust == Beta_get_thrust(beta_lander)
    IN  /\ beta_lander' = thrust.self
        /\ beta_engine_calls' = step(apply_force(<<>>, thrust.ret))
        /\ beta_draw_calls' = <<>>

Beta_on_draw ==
    LET drawn == Beta_draw_lander(<<DrawCall("start_render", <<0, 0>>),
                                    DrawCall("wall_list.draw", <<0, 0>>)>>, beta_lander)
    IN  /\ beta_lander' = drawn.self
        /\ beta_draw_calls' = Beta_draw_fuel(drawn.calls, drawn.self)
        /\ beta_engine_calls' = <<>>

\* ------------------------------------------------------ the running games
Init ==
    /\ input_service = InputService_init
    /\ lander = Lander_init
    /\ engine_calls = <<>>
    /\ draw_calls = <<>>
    /\ handler = <<"__init__", NoKey>>
    /\ last_event = [k \in DirectionKeys |-> "none"]
    /\ ticks = 0
    /\ call_arg = <<0, 0>>
    /\ beta_lander = Beta_Lander_init
    /\ beta_engine_calls = <<>>
    /\ beta_draw_calls = <<>>
    /\ beta_handler = <<"__init__", NoKey>>

Observe(name, key, event) ==
    /\ handler' = <<name, key>>
    /\ last_event' = IF key \in DirectionKeys /\ event # "none"
                         THEN [last_event EXCEPT ![key] = event]
                         ELSE last_event
    /\ UNCHANGED call_arg

\* MoonLaner.py under any interleaving of the framework's events.
KeyPress == \E key \in Keys :
    on_key_press(key) /\ Observe("on_key_press", key, "press") /\ UNCHANGED <<ticks, bvars>>

KeyRelease == \E key \in Keys :
    on_key_release(key) /\ Observe("on_key_release", key, "release") /\ UNCHANGED <<ticks, bvars>>

Update == on_update /\ Observe("on_update", NoKey, "none") /\ UNCHANGED <<ticks, bvars>>

Draw == on_draw /\ Observe("on_draw", NoKey, "none") /\ UNCHANGED <<ticks, bvars>>

Next == KeyPress \/ KeyRelease \/ Update \/ Draw

Spec == Init /\ [][Next]_vars

\* MoonLaner.py with right pressed first and never released; any other key
\* may come and go, and frames may be drawn, between the counted ticks.
HoldRight_Start ==
    /\ ~input_service.right
    /\ on_key_press(RIGHT) /\ Observe("on_key_press", RIGHT, "press")
    /\ UNCHANGED <<ticks, bvars>>

HoldRight_KeyPress == \E key \in Keys :
    /\ input_service.right
    /\ on_key_press(key) /\ Observe("on_key_press", key, "press")
    /\ UNCHANGED <<ticks, bvars>>

HoldRight_KeyRelease == \E key \in Keys \ {RIGHT} :
    /\ input_service.right
    /\ on_key_release(key) /\ Observe("on_key_release", key, "release")
    /\ UNCHANGED <<ticks, bvars>>

HoldRight_Update ==
    /\ input_service.right
    /\ ticks < MaxTicks
    /\ on_update /\ Observe("on_update", NoKey, "none")
    /\ ticks' = ticks + 1
    /\ UNCHANGED bvars

HoldRight_Draw ==
    /\ input_service.right
    /\ on_draw /\ Observe("on_draw", NoKey, "none")
    /\ UNCHANGED <<ticks, bvars>>

NextHoldRight ==
    \/ HoldRight_Start
    \/ HoldRight_KeyPress
    \/ HoldRight_KeyRelease
    \/ HoldRight_Update
    \/ HoldRight_Draw

SpecHoldRight == Init /\ [][NextHoldRight]_vars

\* MoonLaner.py with left and right held in turn, one tick each, left first:
\* press, tick, release, press the other, tick, ...
Alternate_Press ==
    LET key == IF ticks % 2 = 0 THEN LEFT ELSE RIGHT
    IN  /\ input_service = InputService_init
        /\ on_key_press(key) /\ Observe("on_key_press", key, "press")
        /\ UNCHANGED <<ticks, bvars>>

Alternate_Update ==
    /\ handler[1] = "on_key_press"
    /\ ticks < MaxTicks
    /\ on_update /\ Observe("on_update", NoKey, "none")
    /\ ticks' = ticks + 1
    /\ UNCHANGED bvars

Alternate_Release == \E key \in {LEFT, RIGHT} :
    /\ handler[1] = "on_update"
    /\ last_event[key] = "press"
    /\ on_key_release(key) /\ Observe("on_key_release", key, "release")
    /\ UNCHANGED <<ticks, bvars>>

NextAlternate == Alternate_Press \/ Alternate_Update \/ Alternate_Release

SpecAlternate == Init /\ [][NextAlternate]_vars

\* lundarLanderBeta.py under any interleaving of the framework's events (its
\* window has no on_key_release).
Beta_KeyPress == \E key \in Keys :
    /\ key \in {LEFT, RIGHT} => beta_lander.rotation < MaxRotationSeen
    /\ Beta_on_key_press(key)
    /\ beta_handler' = <<"on_key_press", key>>
    /\ UNCHANGED mvars

Beta_Update ==
    /\ Beta_on_update
    /\ beta_handler' = <<"on_update", NoKey>>
    /\ UNCHANGED mvars

Beta_Draw ==
    /\ Beta_on_draw
    /\ beta_handler' = <<"on_draw", NoKey>>
    /\ UNCHANGED mvars

NextBeta == Beta_KeyPress \/ Beta_Update \/ Beta_Draw

SpecBeta == Init /\ [][NextBeta]_vars

\* One of the two games is run: whichever handles the first event.
NextEither ==
    \/ beta_handler[1] = "__init__" /\ Next
    \/ handler[1] = "__init__" /\ NextBeta

SpecEither == Init /\ [][NextEither]_vars

\* The Lander class of each file driven through its setters directly, the
\* same call made on both objects: any thrust vector, any rotation delta.
ThrustInputs == {<<0, 0>>, <<65, 0>>, <<-65, 0>>, <<0, 65>>, <<65, 65>>, <<-65, 65>>}
RotationInputs == {-5, 5, 10}

Lander_SetThrust == \E thrust \in ThrustInputs :
    /\ thrust[1] # 0 => lander.rotation < MaxRotationSeen
    /\ lander' = set_thrust(lander, thrust)
    /\ beta_lander' = Beta_set_thrust(beta_lander, thrust)
    /\ handler' = <<"set_thrust", NoKey>>
    /\ beta_handler' = <<"set_thrust", NoKey>>
    /\ call_arg' = thrust
    /\ UNCHANGED <<input_service, engine_calls, draw_calls, last_event, ticks,
                   beta_engine_calls, beta_draw_calls>>

Lander_SetRotation == \E rotation \in RotationInputs :
    /\ lander.rotation + rotation >= -MaxRotationSeen
    /\ lander' = set_rotation(lander, rotation)
    /\ beta_lander' = Beta_set_rotation(beta_lander, rotation)
    /\ handler' = <<"set_rotation", NoKey>>
    /\ beta_handler' = <<"set_rotation", NoKey>>
    /\ call_arg' = <<rotation, 0>>
    /\ UNCHANGED <<input_service, engine_calls, draw_calls, last_event, ticks,
                   beta_engine_calls, beta_draw_calls>>

NextLander == Lander_SetThrust \/ Lander_SetRotation

SpecLander == Init /\ [][NextLander]_vars

\* ------------------------------------------------------- claim vocabulary
\* The forces a handler handed to apply_force, in call order.
Forces(calls) ==
    LET applied == SelectSeq(calls, LAMBDA c : c.op = "apply_force")
    IN  [i \in 1..Len(applied) |-> applied[i].force]

Steps(calls) == Len(SelectSeq(calls, LAMBDA c : c.op = "step"))

Held(is, key) ==
    CASE key = RIGHT -> is.right
      [] key = LEFT -> is.left
      [] key = UP -> is.up

IsTick == handler'[1] = "on_update"
IsKeyEvent == handler'[1] \in {"on_key_press", "on_key_release"}
AfterTick == handler[1] = "on_update"

\* C1: in MoonLaner.py the fuel is an integer between 0 and 1000 in every
\* state any sequence of key presses, key releases, updates and draws reaches.
C1_FuelInRange == lander.fuel \in 0..1000

\* A tick has run with the tank empty and up held, and the fuel is still 0.
C1_Witness ==
    /\ AfterTick
    /\ lander.fuel = 0
    /\ input_service.up /\ ~input_service.right /\ ~input_service.left

\* C2: fuel = 0 is absorbing in MoonLaner.py: from a state with fuel 0 every
\* step leaves the fuel at 0, an on_update applies no force whatever is held,
\* and get_thrust returns (0, 0).
C2_FuelZeroAbsorbing ==
    [][lander.fuel = 0 =>
          /\ lander'.fuel = 0
          /\ IsTick => Forces(engine_calls') = <<>>
          /\ get_thrust(lander) = <<0, 0>>
          /\ get_thrust(lander') = <<0, 0>>]_vars

\* A tick has run with the tank empty and all three directions held.
C2_Witness ==
    /\ AfterTick
    /\ lander.fuel = 0
    /\ input_service.right /\ input_service.left /\ input_service.up
    /\ Forces(engine_calls) = <<>>

\* C3: in every on_update of MoonLaner.py the fuel drops by exactly 1 when a
\* force is applied and is unchanged when none is; none is applied when no
\* direction is held or the fuel is 0; and no step at all raises the fuel.
C3_FuelPerTick ==
    [][/\ lander'.fuel <= lander.fuel
       /\ IsTick =>
            /\ Forces(engine_calls') # <<>> => lander'.fuel = lander.fuel - 1
            /\ Forces(engine_calls') = <<>> => lander'.fuel = lander.fuel
            /\ (\/ lander.fuel = 0
                \/ ~(input_service.right \/ input_service.left \/ input_service.up))
               => Forces(engine_calls') = <<>>]_vars

\* The first thrusting tick of a game, to the left: one unit of fuel is gone.
C3_Witness ==
    /\ AfterTick
    /\ Forces(engine_calls) = << <<-65, 0>> >>
    /\ lander.fuel = 999

\* C5: with fuel > 0 an on_update of MoonLaner.py applies exactly the one
\* force the priority right, left, up picks among the held flags: (65, 0),
\* else (-65, 0), else (0, 65), else none; forces are never combined.
C5_ForcePriority ==
    [][(IsTick /\ lander.fuel > 0) =>
          Forces(engine_calls') =
              IF input_service.right THEN << <<65, 0>> >>
              ELSE IF input_service.left THEN << <<-65, 0>> >>
              ELSE IF input_service.up THEN << <<0, 65>> >>
              ELSE <<>>]_vars

\* A tick with right, left and up all held applied (65, 0) alone.
C5_Witness ==
    /\ AfterTick
    /\ input_service.right /\ input_service.left /\ input_service.up
    /\ Forces(engine_calls) = << <<65, 0>> >>

\* C6: in MoonLaner.py each direction flag is true exactly when the latest
\* key event for that direction was a press; pressing a held direction again
\* and releasing one that is not held change nothing.
C6_FlagsFollowLastEvent ==
    /\ \A d \in DirectionKeys : Held(input_service, d) <=> (last_event[d] = "press")
    /\ \A d \in DirectionKeys :
          /\ Held(input_service, d) => key_input(input_service, d) = input_service
          /\ ~Held(input_service, d) => key_release(input_service, d) = input_service

\* A press of right led here; left was released last and up never touched.
C6_Witness ==
    /\ handler = <<"on_key_press", RIGHT>>
    /\ last_event = [k \in DirectionKeys |->
                        IF k = RIGHT THEN "press" ELSE IF k = LEFT THEN "release" ELSE "none"]
    /\ input_service = [right |-> TRUE, left |-> FALSE, up |-> FALSE]

\* C7: a key event of MoonLaner.py touches nothing but its own flag: the
\* other direction flags keep their values (all three for a key that is not a
\* direction), and the lander's fuel, rotation and thrust are unchanged.
C7_KeyEventFrame ==
    [][IsKeyEvent =>
          /\ \A d \in DirectionKeys \ {handler'[2]} :
                Held(input_service', d) = Held(input_service, d)
          /\ lander' = lander]_vars

\* A key that is no direction was pressed while right was held and fuel spent.
C7_Witness ==
    /\ handler = <<"on_key_press", SPACE>>
    /\ input_service = [right |-> TRUE, left |-> FALSE, up |-> FALSE]
    /\ lander.fuel < 1000

\* C4: the lander's rotation never exceeds 45, however many horizontal
\* thrusts Lander.set_thrust receives (here from the key presses of
\* lundarLanderBeta.py): at 45 a further horizontal thrust leaves it at 45.
C4_RotationAtMost45 == beta_lander.rotation <= 45

\* C8: MoonLaner.py with right held from the start: each of the first 1000
\* ticks applies (65, 0) and takes one unit of fuel, the fuel is 0 after tick
\* 1000, and every later tick applies nothing and leaves it at 0.
C8_HoldRightScenario ==
    /\ lander.fuel = IF ticks <= 1000 THEN 1000 - ticks ELSE 0
    /\ AfterTick =>
          Forces(engine_calls) = IF ticks <= 1000 THEN << <<65, 0>> >> ELSE <<>>

\* Tick 1001 has just run: no force, fuel 0.
C8_Witness ==
    /\ AfterTick
    /\ ticks = 1001
    /\ lander.fuel = 0
    /\ Forces(engine_calls) = <<>>

\* C9: MoonLaner.py with left, right, left, right held for one tick each:
\* the rotation grows by 5 on each of those ticks and is 20 after the fourth.
C9_RotationFeedback == ticks <= 4 => lander.rotation = 5 * ticks

\* C10: in lundarLanderBeta.py only a tick with nonzero thrust spends fuel:
\* a draw leaves the fuel alone, a tick that applies (0, 0) leaves it alone,
\* and get_thrust changes no field of the lander.
C10_FuelSpentOnlyByThrustingTick ==
    [][/\ beta_handler'[1] = "on_draw" => beta_lander'.fuel = beta_lander.fuel
       /\ (beta_handler'[1] = "on_update" /\ Forces(beta_engine_calls') = << <<0, 0>> >>)
             => beta_lander'.fuel = beta_lander.fuel
       /\ Beta_get_thrust(beta_lander).self = beta_lander]_vars

\* C11: in lundarLanderBeta.py a press of a key that is not LEFT, RIGHT or UP
\* is ignored: it leaves the lander's thrust, rotation and fuel unchanged.
C11_OtherKeyIgnored ==
    [][(beta_handler'[1] = "on_key_press" /\ beta_handler'[2] \notin {LEFT, RIGHT, UP}) =>
          /\ beta_lander'.thrust = beta_lander.thrust
          /\ beta_lander'.rotation = beta_lander.rotation
          /\ beta_lander'.fuel = beta_lander.fuel]_vars

\* The <<whole, tenth>> pairs a handler drew as the fuel text, in call order.
FuelTexts(calls) ==
    LET drawn == SelectSeq(calls, LAMBDA c : c.op = "draw_text.fuel")
    IN  [i \in 1..Len(drawn) |-> drawn[i].arg]

AfterDraw == handler[1] = "on_draw"

\* C12: the percentage MoonLaner.py draws, fuel / 10, is 100 * fuel / 1000
\* (the fuel as a share of the initial 1000) and lies between 0 and 100.
C12_FuelPercentage ==
    AfterDraw =>
        /\ Len(FuelTexts(draw_calls)) = 1
        /\ LET shown == FuelTexts(draw_calls)[1]
               tenths == 10 * shown[1] + shown[2]
           IN  /\ shown[1] >= 0 /\ shown[2] \in 0..9
               /\ tenths * 1000 = 10 * (100 * lander.fuel)
               /\ 0 <= tenths /\ tenths <= 10 * 100

\* A frame drawn one unit of fuel short of full shows 99.9.
C12_Witness ==
    /\ AfterDraw
    /\ lander.fuel = 999
    /\ FuelTexts(draw_calls) = << <<99, 9>> >>

\* C13: every on_update of MoonLaner.py steps the physics engine exactly once,
\* whatever is held and whatever the fuel, and applies at most one force,
\* before the step.
C13_OneStepPerTick ==
    AfterTick =>
        /\ Steps(engine_calls) = 1
        /\ Len(Forces(engine_calls)) <= 1
        /\ engine_calls[Len(engine_calls)].op = "step"

\* A tick that applied the upward force and then stepped.
C13_Witness ==
    /\ AfterTick
    /\ Len(engine_calls) = 2
    /\ engine_calls[1].op = "apply_force" /\ engine_calls[1].force = <<0, 65>>
    /\ engine_calls[2].op = "step"

\* What set_thrust must make of a lander: the thrust stored, 5 added to the
\* rotation exactly when the horizontal component is nonzero, the rest kept.
ThrustSet(before, after, thrust) ==
    /\ after.thrust = thrust
    /\ after.rotation = before.rotation + (IF thrust[1] = 0 THEN 0 ELSE 5)
    /\ after.fuel = before.fuel
    /\ after.has_crashed = before.has_crashed

\* C14: Lander.set_thrust(t), in both files, stores t as the thrust and adds
\* exactly 5 to the rotation when t[0] is nonzero, of either sign; with
\* t[0] = 0 the rotation is unchanged; the fuel is never changed.
C14_SetThrust ==
    [][handler'[1] = "set_thrust" =>
          /\ ThrustSet(lander, lander', call_arg')
          /\ ThrustSet(beta_lander, beta_lander', call_arg')]_vars

\* set_thrust((-65, 0)) has just taken both landers' rotation from 5 to 10.
C14_Witness ==
    /\ handler[1] = "set_thrust"
    /\ call_arg = <<-65, 0>>
    /\ lander.thrust = <<-65, 0>> /\ lander.rotation = 10
    /\ beta_lander.thrust = <<-65, 0>> /\ beta_lander.rotation = 10

\* C15: has_crashed is False in every state either game reaches: no key
\* event, tick or draw of MoonLaner.py or lundarLanderBeta.py sets it.
C15_NeverCrashed ==
    /\ lander.has_crashed = FALSE
    /\ beta_lander.has_crashed = FALSE

\* MoonLaner.py has burnt all its fuel, drawn a frame, and is not crashed.
C15_Witness ==
    /\ AfterDraw
    /\ lander.fuel = 0
    /\ lander.has_crashed = FALSE

\* C16: in lundarLanderBeta.py the fuel is a multiple of 10 between 0 and
\* 2000 in every reachable state: get_thrust's test fuel = 0 is met exactly
\* and the steps of 10 never take the fuel below zero.
C16_BetaFuelMultipleOf10 ==
    /\ beta_lander.fuel \in 0..2000
    /\ beta_lander.fuel % 10 = 0

\* A frame drawn with rightward thrust latched ends on an empty tank: the
\* get_thrust that decides on turn_right met fuel = 0, so the sprite is not turned.
C16_Witness ==
    /\ beta_handler[1] = "on_draw"
    /\ beta_lander.fuel = 0
    /\ beta_lander.thrust = <<65, 0>>
    /\ Len(SelectSeq(beta_draw_calls, LAMBDA c : c.op = "turn_right")) = 0

\* The force lundarLanderBeta.py's apply_input latches for a key.
KeyForce(key) ==
    CASE key = LEFT -> <<-65, 0>>
      [] key = RIGHT -> <<65, 0>>
      [] key = UP -> <<0, 65>>
      [] OTHER -> <<0, 0>>

\* C17: thrust is latched in lundarLanderBeta.py: a key press sets the force
\* of its key, nothing else changes it (there is no release), and an
\* on_update applies exactly that latched force while fuel # 0 and (0, 0)
\* once fuel = 0.
C17_ThrustLatched ==
    [][/\ beta_handler'[1] = "on_key_press" =>
             beta_lander'.thrust = KeyForce(beta_handler'[2])
       /\ beta_handler'[1] # "on_key_press" =>
             beta_lander'.thrust = beta_lander.thrust
       /\ beta_handler'[1] = "on_update" =>
             Forces(beta_engine_calls') =
                 << IF beta_lander.fuel # 0 THEN beta_lander.thrust ELSE <<0, 0>> >>]_vars

\* A tick on an empty tank with a leftward thrust still latched applied (0, 0).
C17_Witness ==
    /\ beta_handler[1] = "on_update"
    /\ beta_lander.fuel = 0
    /\ beta_lander.thrust = <<-65, 0>>
    /\ Forces(beta_engine_calls) = << <<0, 0>> >>

====
